---- MODULE Spec2Model ----
(***************************************************************************)
(* Model of src/publish.ts of vscode-vsce: readManifestFromPackage (the    *)
(* archive manifest extractor, driven by yauzl events), versionBump,       *)
(* publish, _publish (the publish transactor) and unpublish.               *)
(*                                                                         *)
(* Every external collaborator (yauzl, readManifest, writeManifest,        *)
(* tmpName, pack, getPublisher, the gallery API, read) is an environment   *)
(* that answers a call with a result drawn from a small set.  One action   *)
(* is one callback of the program: it runs to completion, including the    *)
(* promise reactions it triggers synchronously in the same job.            *)
(***************************************************************************)
EXTENDS Integers, Sequences, FiniteSets, TLC

(***************************************************************************)
(* Bounds of the model.                                                    *)
(***************************************************************************)
\* entries the archive reader delivers before end-of-archive, at most
MaxEntries == 2
\* of which entries matching the manifest path, at most
MaxMatches == 2
\* chunks the entry read streams of one archive deliver in all, at most
MaxChunks == 2
MaxComponent == 1

(***************************************************************************)
(* Program constants.                                                      *)
(***************************************************************************)
\* err.statusCode === 404 (publish.ts:62)
NotFoundStatus == 404
\* err.statusCode === 409 (publish.ts:73)
ConflictStatus == 409
\* the statuses a failed gallery call is drawn from
Statuses == {NotFoundStatus, ConflictStatus, 500}

(***************************************************************************)
(* Strings.  Publisher, name and identifier are sequences of characters so *)
(* that String.split can be computed; a JavaScript value that may be       *)
(* undefined is a record [def, str].                                       *)
(***************************************************************************)
Acme == <<"a", "c", "m", "e">>
Tool == <<"t", "o", "o", "l">>
Dot == "."

Def(s) == [def |-> TRUE, str |-> s]
Undefined == [def |-> FALSE, str |-> <<>>]

\* JavaScript truthiness of an optional string option: undefined and ""
\* are falsy.
Truthy(v) == v.def /\ Len(v.str) > 0

(***************************************************************************)
(* Versions.  A version string is a record; tag "" is the canonical text   *)
(* "maj.min.pat", tag "v" the text "vmaj.min.pat", the tags "major",       *)
(* "minor", "patch" the three keywords, tag "junk" a text that is no       *)
(* semantic version, tag "null" the JavaScript null.                       *)
(***************************************************************************)
Ver(a, b, c) == [tag |-> "", maj |-> a, min |-> b, pat |-> c]
VPrefixed(a, b, c) == [tag |-> "v", maj |-> a, min |-> b, pat |-> c]
Word(t) == [tag |-> t, maj |-> 0, min |-> 0, pat |-> 0]
NullVersion == Word("null")
JunkVersion == Word("junk")
NoVersion == Word("undefined")

\* semver.valid(v): the canonical text of a semantic version (a leading
\* "v" is dropped), null for anything else.
SemverValid(v) ==
    IF v.tag \in {"", "v"} THEN Ver(v.maj, v.min, v.pat) ELSE NullVersion

\* semver.inc(v, release) for release in major, minor, patch: null when v
\* is no semantic version.
SemverInc(v, release) ==
    IF SemverValid(v) = NullVersion THEN NullVersion
    ELSE CASE release = "major" -> Ver(v.maj + 1, 0, 0)
           [] release = "minor" -> Ver(v.maj, v.min + 1, 0)
           [] release = "patch" -> Ver(v.maj, v.min, v.pat + 1)

(***************************************************************************)
(* Manifests and errors.                                                   *)
(***************************************************************************)
Manifest(p, n, v, api) ==
    [publisher |-> p, name |-> n, version |-> v, enableProposedApi |-> api]
NoManifest == Manifest(<<>>, <<>>, NoVersion, FALSE)

\* `${manifest.publisher}.${manifest.name}@${manifest.version}`
FullNameOf(m) == <<m.publisher, Dot, m.name, "@", m.version>>
NoName == <<>>

\* A rejection value.  kind names the message; from names the step that
\* produced it; status is err.statusCode (0: none); invalidResource: the
\* message matches /Invalid Resource/; hint: the PAT remark was appended;
\* name: the full name the message carries.
Err(kind, from, status, invalidResource, name) ==
    [kind |-> kind, from |-> from, status |-> status,
     invalidResource |-> invalidResource, hint |-> FALSE, name |-> name]
Plain(kind, from) == Err(kind, from, 0, FALSE, NoName)
NoErr == Plain("none", "none")

\* what the gallery can answer a failed call with
HttpErrors(from) ==
    { Err("Http", from, s, ir, NoName) :
        s \in Statuses,
        ir \in BOOLEAN }

(***************************************************************************)
(* The archive.  Entry names are strings of a fixed set; ToLower is the    *)
(* case folding the i flag of the regular expression applies.              *)
(***************************************************************************)
ManifestPath == "extension/package.json"

Names == { "extension/package.json", "Extension/Package.JSON",
           "extension/package.json.bak" }

ToLower(n) ==
    CASE n = "Extension/Package.JSON" -> "extension/package.json"
      [] OTHER -> n

\* /^extension\/package\.json$/i.test(entry.fileName)
IsManifestEntry(n) == ToLower(n) = ManifestPath

\* The content of an entry is a text of tokens, delivered in chunks.  "{"
\* and "}" delimit an object; "id" stands for the publisher and name
\* members, "v1" for the version member, "api" for enableProposedApi: true.
FieldTokens == {"id", "v1", "api"}
Chunks == { <<"{", "id", "v1">>, <<"api", "}">>, <<"}">> }

RECURSIVE Concat(_)
\* Buffer.concat(buffers)
Concat(buffers) ==
    IF buffers = <<>> THEN <<>>
    ELSE Head(buffers) \o Concat(Tail(buffers))

\* whether JSON.parse accepts the text
JsonValid(text) ==
    /\ Len(text) >= 2
    /\ text[1] = "{"
    /\ text[Len(text)] = "}"
    /\ \A i \in 2..(Len(text) - 1) : text[i] \in FieldTokens

\* the value JSON.parse returns for a text it accepts
JsonValue(text) ==
    LET has(t) == \E i \in 2..(Len(text) - 1) : text[i] = t
    IN Manifest(IF has("id") THEN Acme ELSE <<>>,
                IF has("id") THEN Tool ELSE <<>>,
                IF has("v1") THEN Ver(1, 0, 0) ELSE NoVersion,
                has("api"))

(***************************************************************************)
(* State.                                                                  *)
(***************************************************************************)
VARIABLES
    op,           \* the exported function that was called
    options,      \* its options argument
    cwdManifest,  \* the manifest file of the working directory
    run,          \* the promise chain of the call, see NewRun
    zip,          \* state of the yauzl zipfile
    endListener,  \* whether onEnd is a listener of 'end'
    entries,      \* names of the entries delivered so far
    streams,      \* the entry read streams asked for, in order: the entry
                  \* read, the state of the stream, the chunks it has sent
                  \* and the buffers array of the code
    rm,           \* the promise readManifestFromPackage returned
    cCalls,       \* times c was called
    eCalls        \* times e was called

zipVars == <<zip, endListener, entries, streams, rm, cCalls, eCalls>>
vars == <<op, options, cwdManifest, run,
          zip, endListener, entries, streams, rm, cCalls, eCalls>>

(***************************************************************************)
(* Promises.  A promise settles once: a later call of its resolve or       *)
(* reject function changes nothing.  fired counts the outcomes the promise *)
(* hands to its reactions.                                                 *)
(***************************************************************************)
Pending == [state |-> "pending", manifest |-> NoManifest, err |-> NoErr,
            fired |-> 0]

\* A result channel that fires on every call of c.
FulfilEveryCall(p, m) ==
    [state |-> "fulfilled", manifest |-> m, err |-> NoErr,
     fired |-> p.fired + 1]

Fulfil(p, m) ==
    IF p.state = "pending"
    THEN [state |-> "fulfilled", manifest |-> m, err |-> NoErr,
          fired |-> p.fired + 1]
    ELSE p

Reject(p, e) ==
    IF p.state = "pending"
    THEN [state |-> "rejected", manifest |-> NoManifest, err |-> e,
          fired |-> p.fired + 1]
    ELSE p

(***************************************************************************)
(* The promise chain of one call of publish or unpublish.  The operators   *)
(* below map the chain before a callback to the chain after it.            *)
(***************************************************************************)
NoReply == [state |-> "none", versions |-> {}, err |-> NoErr]
Found(versions) == [state |-> "ok", versions |-> versions, err |-> NoErr]
Failure(e) == [state |-> "failed", versions |-> {}, err |-> e]

NewRun ==
    [pc |-> "start",
     result |-> [state |-> "pending", err |-> NoErr],
     calls |-> <<>>,          \* calls made to the collaborators, in order
     console |-> <<>>,        \* lines written by console.log
     failed |-> {},           \* collaborators that answered with a failure
     manifest |-> NoManifest, \* manifest of the package result
     packagePath |-> <<>>,    \* packagePath of the package result
     pat |-> "none",          \* state of the pat promise of unpublish
     target |-> [publisher |-> Undefined, name |-> Undefined],
     answer |-> Undefined,    \* what read answered
     queried |-> NoReply,     \* what getExtension answered
     transferred |-> NoReply] \* what createExtension/updateExtension answered

Call(r, fn, arg) == [r EXCEPT !.calls = Append(@, <<fn, arg>>)]
Log(r, text, name) == [r EXCEPT !.console = Append(@, <<text, name>>)]
StepFailed(r, step) == [r EXCEPT !.failed = @ \cup {step}]
Rejected(r, e) ==
    [r EXCEPT !.pc = "done", !.result = [state |-> "rejected", err |-> e]]
Resolved(r) ==
    [r EXCEPT !.pc = "done", !.result = [state |-> "resolved", err |-> NoErr]]

NumCalls(r, fn) == Cardinality({i \in DOMAIN r.calls : r.calls[i][1] = fn})
LastArg(r) == r.calls[Len(r.calls)][2]

TmpPath == <<"t", "m", "p">>
StoredPat == <<"s", "t", "o", "r", "e", "d">>
\* the pat a call uses: options.pat, or else the one getPublisher gave
Token == IF Truthy(options.pat) THEN options.pat.str ELSE StoredPat

VersionGiven(v) == v.tag \notin {"undefined", "empty", "null"}
Keywords == {"major", "minor", "patch"}

(***************************************************************************)
(* _publish (publish.ts:53-85).                                            *)
(***************************************************************************)
\* A handler that returns instead of rejecting again.
CatchAllSwallow(r, e) == Resolved(r)

\* lines 76-84: the hint is appended when err.message matches
CatchAll(r, e) ==
    Rejected(r, IF e.invalidResource THEN [e EXCEPT !.hint = TRUE] ELSE e)

\* lines 54-61, up to the getExtension call
PublishTransactor(r, path, token, m) ==
    LET r1 == Call(r, "getGalleryAPI", token)
        r2 == Call(r1, "fs.createReadStream", path)
        r3 == Log(r2, "Publishing", FullNameOf(m))
        r4 == Call(r3, "getExtension", <<m.publisher, m.name>>)
    IN [r4 EXCEPT !.pc = "getExtension", !.manifest = m, !.packagePath = path]

\* The two branches of lines 68-70 exchanged.
TransferSwapped(r, extension) ==
    LET m == r.manifest
    IN IF ~extension
       THEN Call(r, "updateExtension", <<r.packagePath, m.publisher, m.name>>)
       ELSE Call(r, "createExtension", r.packagePath)

\* lines 68-70
Transfer(r, extension) ==
    LET m == r.manifest
    IN IF extension
       THEN Call(r, "updateExtension", <<r.packagePath, m.publisher, m.name>>)
       ELSE Call(r, "createExtension", r.packagePath)

\* The version check of lines 64-66 left out.
OnGetExtensionNoCheck(r, reply) ==
    LET r0 == [r EXCEPT !.queried = reply]
        r1 == IF reply.state = "failed"
              THEN StepFailed(r0, "getExtension") ELSE r0
    IN IF reply.state = "failed" /\ reply.err.status # NotFoundStatus
       THEN CatchAll(r1, reply.err)
       ELSE [Transfer(r1, reply.state = "ok") EXCEPT !.pc = "transfer"]

\* lines 62-70: the reactions to the getExtension promise
OnGetExtension(r, reply) ==
    LET m == r.manifest
        r0 == [r EXCEPT !.queried = reply]
        r1 == IF reply.state = "failed"
              THEN StepFailed(r0, "getExtension") ELSE r0
        extension == reply.state = "ok"
    IN IF reply.state = "failed" /\ reply.err.status # NotFoundStatus
       THEN CatchAll(r1, reply.err)
       ELSE IF extension /\ \E v \in reply.versions : v = m.version
       THEN CatchAll(r1, Err("DuplicateVersion", "_publish", 0, FALSE,
                             FullNameOf(m)))
       ELSE [Transfer(r1, extension) EXCEPT !.pc = "transfer"]

\* Line 73 without the translation of status 409.
OnTransferNoTranslation(r, reply) ==
    LET m == r.manifest
        r1 == [r EXCEPT !.transferred = reply]
    IN IF reply.state = "failed"
       THEN CatchAll(StepFailed(r1, "transfer"), reply.err)
       ELSE Resolved(Log(r1, "Successfully published", FullNameOf(m)))

\* lines 72-74: the reactions to the transfer promise
OnTransfer(r, reply) ==
    LET m == r.manifest
        r1 == [r EXCEPT !.transferred = reply]
    IN IF reply.state = "failed"
       THEN CatchAll(StepFailed(r1, "transfer"),
                     IF reply.err.status = ConflictStatus
                     THEN Err("AlreadyExists", "_publish", 0, FALSE,
                              FullNameOf(m))
                     ELSE reply.err)
       ELSE Resolved(Log(r1, "Successfully published", FullNameOf(m)))

(***************************************************************************)
(* versionBump (publish.ts:96-123) and publish (publish.ts:125-156).       *)
(***************************************************************************)
\* line 141
AllocTmp(r) == [Call(r, "tmpName", <<>>) EXCEPT !.pc = "tmpName"]

\* lines 96-101
VersionBump(r) ==
    IF ~VersionGiven(options.version)
    THEN AllocTmp(r)
    ELSE [Call(r, "readManifest", <<>>) EXCEPT !.pc = "readManifest"]

\* Line 107 reading every keyword as 'patch'.
ResolveVersionAlwaysPatch(current, version) ==
    IF version.tag \in Keywords
    THEN SemverInc(current, "patch")
    ELSE SemverValid(version)

\* lines 103-116
ResolveVersion(current, version) ==
    IF version.tag \in Keywords
    THEN SemverInc(current, version.tag)
    ELSE SemverValid(version)

\* Line 120 without its return: the chain goes on while the write is pending.
OnManifestReadNoReturn(r, m) ==
    LET version == options.version
        next == ResolveVersion(m.version, version)
    IN IF version.tag \notin Keywords /\ next = NullVersion
       THEN Rejected(StepFailed(r, "versionBump"),
                     Err("InvalidVersion", "versionBump", 0, FALSE,
                         <<version>>))
       ELSE IF next # m.version
       THEN AllocTmp(Call(r, "writeManifest", [m EXCEPT !.version = next]))
       ELSE AllocTmp(r)

\* lines 102-122: the reactions to the readManifest promise
OnManifestRead(r, m) ==
    LET version == options.version
        next == ResolveVersion(m.version, version)
    IN IF version.tag \notin Keywords /\ next = NullVersion
       THEN Rejected(StepFailed(r, "versionBump"),
                     Err("InvalidVersion", "versionBump", 0, FALSE,
                         <<version>>))
       ELSE IF next # m.version
       THEN [Call(r, "writeManifest", [m EXCEPT !.version = next])
                EXCEPT !.pc = "writeManifest"]
       ELSE AllocTmp(r)

\* The check of lines 146-148 left out.
AfterSourceNoGate(r, m, path) ==
    LET r1 == [r EXCEPT !.manifest = m, !.packagePath = path]
    IN IF Truthy(options.pat)
       THEN PublishTransactor(r1, path, options.pat.str, m)
       ELSE [Call(r1, "getPublisher", m.publisher) EXCEPT !.pc = "getPublisher"]

\* lines 145-155: the reaction to the package result {manifest, packagePath}
AfterSource(r, m, path) ==
    LET r1 == [r EXCEPT !.manifest = m, !.packagePath = path]
    IN IF m.enableProposedApi
       THEN Rejected(r1, Plain("ProposedApi", "publish"))
       ELSE IF Truthy(options.pat)
       THEN PublishTransactor(r1, path, options.pat.str, m)
       ELSE [Call(r1, "getPublisher", m.publisher) EXCEPT !.pc = "getPublisher"]

\* The check of lines 129-131 left out.
PublishNoExclusion(r) ==
    IF Truthy(options.packagePath)
    THEN [Call(r, "yauzl.open", options.packagePath.str)
             EXCEPT !.pc = "extract"]
    ELSE VersionBump(r)

\* lines 125-143
Publish(r) ==
    IF Truthy(options.packagePath)
    THEN IF VersionGiven(options.version)
         THEN Rejected(r, Plain("Config", "publish"))
         ELSE [Call(r, "yauzl.open", options.packagePath.str)
                  EXCEPT !.pc = "extract"]
    ELSE VersionBump(r)

(***************************************************************************)
(* unpublish (publish.ts:181-204).                                         *)
(***************************************************************************)
RECURSIVE Split(_)
\* String.split('.')
Split(s) ==
    IF \A i \in DOMAIN s : s[i] # Dot
    THEN <<s>>
    ELSE LET i == CHOOSE j \in DOMAIN s :
                      s[j] = Dot /\ \A k \in 1..(j - 1) : s[k] # Dot
         IN <<SubSeq(s, 1, i - 1)>> \o Split(SubSeq(s, i + 1, Len(s)))

\* const [publisher, name] = parts
Destructure(parts) ==
    [publisher |-> Def(parts[1]),
     name |-> IF Len(parts) >= 2 THEN Def(parts[2]) ELSE Undefined]

DisplayName(t) == <<t.publisher, Dot, t.name>>

\* /^y$/i.test(answer)
IsYes(a) == Len(a) = 1 /\ a[1] \in {"y", "Y"}

\* lines 191-197
Confirm(r, t) ==
    LET r1 == [r EXCEPT !.target = t]
        r2 == IF Truthy(options.pat)
              THEN [r1 EXCEPT !.pat = "resolved"]
              ELSE [Call(r1, "getPublisher", t.publisher.str)
                       EXCEPT !.pat = "pending"]
    IN [Call(r2, "read", DisplayName(t)) EXCEPT !.pc = "prompt"]

\* lines 200-201
Delete(r) ==
    [Call(Call(r, "getGalleryAPI", Token), "deleteExtension",
          <<r.target.publisher, r.target.name>>) EXCEPT !.pc = "delete"]

\* line 199: the chain goes on when the pat promise is settled
AwaitPat(r) ==
    CASE r.pat = "resolved" -> Delete(r)
      [] r.pat = "rejected" -> Rejected(r, Plain("UnknownPublisher", "getPublisher"))
      [] OTHER -> [r EXCEPT !.pc = "awaitPat"]

\* Line 198 with the answer ignored.
OnAnswerUnchecked(r, a) == AwaitPat([r EXCEPT !.answer = Def(a)])

\* line 198
OnAnswer(r, a) ==
    LET r1 == [r EXCEPT !.answer = Def(a)]
    IN IF IsYes(a) THEN AwaitPat(r1)
       ELSE Rejected(r1, Plain("Aborted", "unpublish"))

\* line 195: getPublisher answers
OnPat(r, ok) ==
    LET r1 == IF ok THEN [r EXCEPT !.pat = "resolved"]
              ELSE StepFailed([r EXCEPT !.pat = "rejected"], "getPublisher")
    IN IF r.pc = "awaitPat" THEN AwaitPat(r1) ELSE r1

\* line 202
OnDeleted(r, reply) ==
    IF reply.state = "failed"
    THEN Rejected(StepFailed(r, "deleteExtension"), reply.err)
    ELSE Resolved(Log(r, "Successfully deleted", DisplayName(r.target)))

\* lines 181-189
Unpublish(r) ==
    IF Truthy(options.id)
    THEN Confirm(r, Destructure(Split(options.id.str)))
    ELSE [Call(r, "readManifest", <<>>) EXCEPT !.pc = "readIdentity"]

(***************************************************************************)
(* What follows the settling of the promise of readManifestFromPackage.    *)
(* Its reactions run as soon as the callback that settled it returns,      *)
(* before any other event: for publish these are line 134 and lines        *)
(* 145-155.  old and new are the promise before and after the callback.    *)
(***************************************************************************)
\* Line 134 pairing the manifest with another path than the one given.
SettledOtherPath(r, old, new) ==
    IF ~(old.state = "pending" /\ new.state # "pending") THEN r
    ELSE IF op = "publish"
    THEN IF new.state = "rejected"
         THEN Rejected(StepFailed(r, "extract"), new.err)
         ELSE AfterSource(r, new.manifest, TmpPath)
    ELSE IF new.state = "rejected"
    THEN Rejected(r, new.err)
    ELSE Resolved([r EXCEPT !.manifest = new.manifest])

Settled(r, old, new) ==
    IF ~(old.state = "pending" /\ new.state # "pending") THEN r
    ELSE IF op = "publish"
    THEN IF new.state = "rejected"
         THEN Rejected(StepFailed(r, "extract"), new.err)
         ELSE AfterSource(r, new.manifest, options.packagePath.str)
    ELSE IF new.state = "rejected"
    THEN Rejected(r, new.err)
    ELSE Resolved([r EXCEPT !.manifest = new.manifest])

\* How far the archive reader is followed.  A call of
\* readManifestFromPackage on its own is followed up to the bounds; under
\* publish, where every step of the chain multiplies the states, the
\* archive has one entry.
EntryLimit == IF op = "extract" THEN MaxEntries ELSE 1
MatchLimit == IF op = "extract" THEN MaxMatches ELSE 1
ChunkLimit == IF op = "extract" THEN MaxChunks ELSE 2

(***************************************************************************)
(* readManifestFromPackage (publish.ts:15-51).  c and e are the resolve    *)
(* and reject functions of its promise.                                    *)
(***************************************************************************)
NumMatches == Cardinality({i \in DOMAIN entries : IsManifestEntry(entries[i])})

RECURSIVE NumChunks(_)
NumChunks(ss) ==
    IF ss = <<>> THEN 0 ELSE Len(Head(ss).sent) + NumChunks(Tail(ss))

frame == <<op, options, cwdManifest>>

\* yauzl.open calls back with an error: lines 18-20
YauzlOpenFail ==
    /\ zip = "opening"
    /\ zip' = "openfailed"
    /\ rm' = Reject(rm, Plain("ArchiveOpen", "yauzl.open"))
    /\ eCalls' = eCalls + 1
    /\ run' = Settled(run, rm, rm')
    /\ UNCHANGED <<endListener, entries, streams, cCalls>>
    /\ UNCHANGED frame

\* yauzl.open calls back with the zipfile: lines 22-25 register the
\* listeners
YauzlOpenOk ==
    /\ zip = "opening"
    /\ zip' = "open"
    /\ endListener' = TRUE
    /\ UNCHANGED <<entries, streams, rm, cCalls, eCalls, run>>
    /\ UNCHANGED frame

\* Line 30 left out: onEnd stays a listener.
EndListenerKept(listening, name) == listening

\* the 'entry' listener, lines 25-32: whether onEnd stays a listener
EndListenerAfterEntry(listening, name) ==
    IF ~IsManifestEntry(name) THEN listening ELSE FALSE

\* the 'entry' listener, lines 25-32: the streams asked for
StreamsAfterEntry(ss, name, index) ==
    IF ~IsManifestEntry(name) THEN ss
    ELSE Append(ss, [entry |-> index, st |-> "opening", sent |-> <<>>,
                     buffers |-> <<>>])

\* the zipfile emits 'entry'
ZipEntry ==
    /\ zip = "open"
    /\ Len(entries) < EntryLimit
    /\ \E name \in Names :
          /\ IsManifestEntry(name) => NumMatches < MatchLimit
          /\ entries' = Append(entries, name)
          /\ endListener' = EndListenerAfterEntry(endListener, name)
          /\ streams' = StreamsAfterEntry(streams, name, Len(entries) + 1)
    /\ UNCHANGED <<zip, rm, cCalls, eCalls, run>>
    /\ UNCHANGED frame

\* the zipfile emits 'end': onEnd (line 22) runs if it is still a listener
ZipEnd ==
    /\ zip = "open"
    /\ zip' = "ended"
    /\ endListener' = FALSE
    /\ IF endListener
       THEN /\ rm' = Reject(rm, Plain("ManifestNotFound", "onEnd"))
            /\ eCalls' = eCalls + 1
       ELSE UNCHANGED <<rm, eCalls>>
    /\ run' = Settled(run, rm, rm')
    /\ UNCHANGED <<entries, streams, cCalls>>
    /\ UNCHANGED frame

\* the zipfile emits 'error' while it enumerates: the code registers no
\* listener for it, so no callback of the code runs
ZipError ==
    /\ zip = "open"
    /\ zip' = "errored"
    /\ UNCHANGED <<endListener, entries, streams, rm, cCalls, eCalls, run>>
    /\ UNCHANGED frame

\* openReadStream calls back with an error: lines 33-35
StreamOpenFail ==
    /\ \E i \in DOMAIN streams :
          /\ streams[i].st = "opening"
          /\ streams' = [streams EXCEPT ![i].st = "failed"]
    /\ rm' = Reject(rm, Plain("StreamOpen", "openReadStream"))
    /\ eCalls' = eCalls + 1
    /\ run' = Settled(run, rm, rm')
    /\ UNCHANGED <<zip, endListener, entries, cCalls>>
    /\ UNCHANGED frame

\* openReadStream calls back with the stream: lines 37-40 register the
\* listeners
StreamOpenOk ==
    /\ \E i \in DOMAIN streams :
          /\ streams[i].st = "opening"
          /\ streams' = [streams EXCEPT ![i].st = "open"]
    /\ UNCHANGED <<zip, endListener, entries, rm, cCalls, eCalls, run>>
    /\ UNCHANGED frame

\* Line 38 with unshift in place of push.
OnDataUnshift(buffers, chunk) == <<chunk>> \o buffers

\* line 38: buffers.push(buffer)
OnData(buffers, chunk) == Append(buffers, chunk)

\* a stream emits 'data'
StreamData ==
    /\ NumChunks(streams) < ChunkLimit
    /\ \E i \in DOMAIN streams, chunk \in Chunks :
          /\ streams[i].st = "open"
          /\ streams' = [streams EXCEPT
                 ![i].sent = Append(@, chunk),
                 ![i].buffers = OnData(@, chunk)]
    /\ UNCHANGED <<zip, endListener, entries, rm, cCalls, eCalls, run>>
    /\ UNCHANGED frame

\* a stream emits 'error': line 39
StreamError ==
    /\ \E i \in DOMAIN streams :
          /\ streams[i].st = "open"
          /\ streams' = [streams EXCEPT ![i].st = "errored"]
    /\ rm' = Reject(rm, Plain("Stream", "stream"))
    /\ eCalls' = eCalls + 1
    /\ run' = Settled(run, rm, rm')
    /\ UNCHANGED <<zip, endListener, entries, cCalls>>
    /\ UNCHANGED frame

\* a stream emits 'end': lines 40-46
StreamEnd ==
    /\ \E i \in DOMAIN streams :
          /\ streams[i].st = "open"
          /\ streams' = [streams EXCEPT ![i].st = "ended"]
          /\ LET text == Concat(streams[i].buffers)
             IN IF JsonValid(text)
                THEN /\ rm' = Fulfil(rm, JsonValue(text))
                     /\ cCalls' = cCalls + 1
                     /\ UNCHANGED eCalls
                ELSE /\ rm' = Reject(rm, Plain("Parse", "JSON.parse"))
                     /\ eCalls' = eCalls + 1
                     /\ UNCHANGED cCalls
    /\ run' = Settled(run, rm, rm')
    /\ UNCHANGED <<zip, endListener, entries>>
    /\ UNCHANGED frame

(***************************************************************************)
(* The environment: what the collaborators can answer.                     *)
(***************************************************************************)
RegistryVersions == {Ver(0, 9, 0), Ver(1, 0, 0), Ver(1, 2, 3)}
QueryReplies ==
    {Found(vs) : vs \in SUBSET RegistryVersions}
        \cup {Failure(e) : e \in HttpErrors("getExtension")}
TransferReplies == {Found({})} \cup {Failure(e) : e \in HttpErrors("transfer")}
DeleteReplies ==
    {Found({})} \cup {Failure(e) : e \in HttpErrors("deleteExtension")}

Answers == { <<"y">>, <<"Y">>, <<"n">>, <<>>, <<"y", "e", "s">> }

PackagePaths == { Undefined, Def(<<>>), Def(<<"e", "x", "t">>) }
Pats == { Undefined, Def(<<"p", "a", "t">>) }
Directives ==
    { NoVersion, Word("empty"), Word("major"), Word("minor"), Word("patch"),
      Ver(1, 2, 3), Ver(2, 0, 0), VPrefixed(1, 2, 3), JunkVersion }
Ids ==
    { Undefined, Def(<<>>),
      Def(<<"a", "c", "m", "e", ".", "t", "o", "o", "l">>),
      Def(<<"a", ".", "b", ".", "c">>),
      Def(<<"a", "c", "m", "e">>) }
\* manifest.version as readManifest returns it: any version of the form
\* major.minor.patch, or a text that is no version
CwdVersions ==
    { Ver(a, b, c) : a, b, c \in 0..MaxComponent }
        \cup {Ver(1, 2, 3), JunkVersion}
CwdManifests ==
    { Manifest(Acme, Tool, v, api) : v \in CwdVersions, api \in BOOLEAN }

ExtractOptions ==
    [packagePath : {Def(<<"e", "x", "t">>)}, version : {NoVersion},
     pat : {Undefined}, id : {Undefined}]
\* with a package path, what matters of the version is whether it is given
PublishOptions ==
    { o \in [packagePath : PackagePaths, version : Directives, pat : Pats,
             id : {Undefined}] :
        Truthy(o.packagePath) => o.version \in {NoVersion, Word("minor")} }
UnpublishOptions ==
    [packagePath : {Undefined}, version : {NoVersion}, pat : Pats, id : Ids]

Init ==
    /\ op \in {"extract", "publish", "unpublish"}
    /\ options \in CASE op = "extract" -> ExtractOptions
                    [] op = "publish" -> PublishOptions
                    [] op = "unpublish" -> UnpublishOptions
    \* the manifest file matters to the runs that read it
    /\ cwdManifest \in IF op = "publish" /\ ~Truthy(options.packagePath)
                        THEN CwdManifests
                        ELSE {Manifest(Acme, Tool, Ver(1, 2, 3), FALSE)}
    /\ run = NewRun
    /\ zip = "none"
    /\ endListener = FALSE
    /\ entries = <<>>
    /\ streams = <<>>
    /\ rm = Pending
    /\ cCalls = 0
    /\ eCalls = 0

(***************************************************************************)
(* The steps of publish.                                                   *)
(***************************************************************************)
\* publish(options) is called
PublishCall ==
    /\ op = "publish"
    /\ run.pc = "start"
    /\ run' = Publish(run)
    /\ zip' = IF run'.pc = "extract" THEN "opening" ELSE zip
    /\ UNCHANGED <<op, options, cwdManifest>>
    /\ UNCHANGED <<endListener, entries, streams, rm, cCalls, eCalls>>

\* readManifestFromPackage(packagePath) is called on its own
ExtractCall ==
    /\ op = "extract"
    /\ run.pc = "start"
    /\ run' = [Call(run, "yauzl.open", options.packagePath.str)
                  EXCEPT !.pc = "extract"]
    /\ zip' = "opening"
    /\ UNCHANGED <<op, options, cwdManifest>>
    /\ UNCHANGED <<endListener, entries, streams, rm, cCalls, eCalls>>

\* readManifest(cwd, false) answers versionBump
ReadManifestDone ==
    /\ op = "publish"
    /\ run.pc = "readManifest"
    /\ \E ok \in BOOLEAN :
          run' = IF ok THEN OnManifestRead(run, cwdManifest)
                 ELSE Rejected(StepFailed(run, "versionBump"),
                               Plain("ReadManifest", "versionBump"))
    /\ UNCHANGED <<op, options, cwdManifest>>
    /\ UNCHANGED zipVars

\* writeManifest answers
WriteManifestDone ==
    /\ run.pc = "writeManifest"
    /\ \E ok \in BOOLEAN :
          IF ok
          THEN /\ cwdManifest' = LastArg(run)
               /\ run' = AllocTmp(run)
          ELSE /\ UNCHANGED cwdManifest
               /\ run' = Rejected(StepFailed(run, "versionBump"),
                                  Plain("WriteManifest", "versionBump"))
    /\ UNCHANGED <<op, options>>
    /\ UNCHANGED zipVars

\* tmpName answers: line 142
TmpNameDone ==
    /\ run.pc = "tmpName"
    /\ \E ok \in BOOLEAN :
          run' = IF ok THEN [Call(run, "pack", TmpPath) EXCEPT !.pc = "pack"]
                 ELSE Rejected(StepFailed(run, "tmpName"),
                               Plain("TmpName", "tmpName"))
    /\ UNCHANGED <<op, options, cwdManifest>>
    /\ UNCHANGED zipVars

\* pack answers with the manifest it read and the path it wrote
PackDone ==
    /\ run.pc = "pack"
    /\ \E ok \in BOOLEAN :
          run' = IF ok THEN AfterSource(run, cwdManifest, TmpPath)
                 ELSE Rejected(StepFailed(run, "pack"), Plain("Pack", "pack"))
    /\ UNCHANGED <<op, options, cwdManifest>>
    /\ UNCHANGED zipVars

\* getPublisher answers publish: line 154
GetPublisherDone ==
    /\ run.pc = "getPublisher"
    /\ \E ok \in BOOLEAN :
          run' = IF ok
                 THEN PublishTransactor(run, run.packagePath, StoredPat,
                                        run.manifest)
                 ELSE Rejected(StepFailed(run, "getPublisher"),
                               Plain("UnknownPublisher", "getPublisher"))
    /\ UNCHANGED <<op, options, cwdManifest>>
    /\ UNCHANGED zipVars

\* getExtension answers
GetExtensionDone ==
    /\ run.pc = "getExtension"
    /\ \E reply \in QueryReplies : run' = OnGetExtension(run, reply)
    /\ UNCHANGED <<op, options, cwdManifest>>
    /\ UNCHANGED zipVars

\* createExtension or updateExtension answers
TransferDone ==
    /\ run.pc = "transfer"
    /\ \E reply \in TransferReplies : run' = OnTransfer(run, reply)
    /\ UNCHANGED <<op, options, cwdManifest>>
    /\ UNCHANGED zipVars

(***************************************************************************)
(* The steps of unpublish.                                                 *)
(***************************************************************************)
\* unpublish(options) is called
UnpublishCall ==
    /\ op = "unpublish"
    /\ run.pc = "start"
    /\ run' = Unpublish(run)
    /\ UNCHANGED <<op, options, cwdManifest>>
    /\ UNCHANGED zipVars

\* readManifest(cwd) answers unpublish
ReadIdentityDone ==
    /\ run.pc = "readIdentity"
    /\ \E ok \in BOOLEAN :
          run' = IF ok
                 THEN Confirm(run, [publisher |-> Def(cwdManifest.publisher),
                                    name |-> Def(cwdManifest.name)])
                 ELSE Rejected(StepFailed(run, "readManifest"),
                               Plain("ReadManifest", "readManifest"))
    /\ UNCHANGED <<op, options, cwdManifest>>
    /\ UNCHANGED zipVars

\* getPublisher answers unpublish
PatDone ==
    /\ op = "unpublish"
    /\ run.pat = "pending"
    /\ \E ok \in BOOLEAN : run' = OnPat(run, ok)
    /\ UNCHANGED <<op, options, cwdManifest>>
    /\ UNCHANGED zipVars

\* read answers, or fails
PromptDone ==
    /\ run.pc = "prompt"
    /\ \/ \E a \in Answers : run' = OnAnswer(run, a)
       \/ run' = Rejected(StepFailed(run, "read"), Plain("Read", "read"))
    /\ UNCHANGED <<op, options, cwdManifest>>
    /\ UNCHANGED zipVars

\* deleteExtension answers
DeleteDone ==
    /\ run.pc = "delete"
    /\ \E reply \in DeleteReplies : run' = OnDeleted(run, reply)
    /\ UNCHANGED <<op, options, cwdManifest>>
    /\ UNCHANGED zipVars

Next ==
    \/ PublishCall
    \/ YauzlOpenFail
    \/ YauzlOpenOk
    \/ ZipEntry
    \/ ZipEnd
    \/ ZipError
    \/ StreamOpenFail
    \/ StreamOpenOk
    \/ StreamData
    \/ StreamError
    \/ StreamEnd
    \/ ExtractCall
    \/ ReadManifestDone
    \/ WriteManifestDone
    \/ TmpNameDone
    \/ PackDone
    \/ GetPublisherDone
    \/ GetExtensionDone
    \/ TransferDone
    \/ UnpublishCall
    \/ ReadIdentityDone
    \/ PatDone
    \/ PromptDone
    \/ DeleteDone

Spec == Init /\ [][Next]_vars

(***************************************************************************)
(* Vocabulary of the properties.                                           *)
(***************************************************************************)
NumTransfers == NumCalls(run, "createExtension") + NumCalls(run, "updateExtension")
NumRegistryCalls ==
    NumCalls(run, "getExtension") + NumTransfers
        + NumCalls(run, "deleteExtension")
TransactorEntered == NumCalls(run, "fs.createReadStream") > 0
Collision ==
    run.queried.state = "ok" /\ run.manifest.version \in run.queried.versions
QueryFailedWith(status) ==
    run.queried.state = "failed" /\ run.queried.err.status = status
RejectedWith(e) == run.result = [state |-> "rejected", err |-> e]
\* the error is the object e, its message possibly extended by the hint
SameFailure(e1, e2) ==
    /\ [e1 EXCEPT !.hint = FALSE] = e2
    /\ e1.hint = e2.invalidResource
Printed(text) == \E i \in DOMAIN run.console : run.console[i][1] = text
Done == run.pc = "done"

(***************************************************************************)
(* C1.  In every run of _publish getExtension is called exactly once,      *)
(* createExtension and updateExtension together at most once, and neither  *)
(* is called when the extension found has a version record equal to        *)
(* manifest.version: that run fails with the duplicate-version error       *)
(* naming publisher.name@version.                                          *)
(***************************************************************************)
C1_QueryOnceAndNoTransferOnCollision ==
    /\ NumCalls(run, "getExtension") = (IF TransactorEntered THEN 1 ELSE 0)
    /\ NumTransfers <= 1
    /\ Collision =>
          /\ NumTransfers = 0
          /\ RejectedWith(Err("DuplicateVersion", "_publish", 0, FALSE,
                 <<run.manifest.publisher, ".", run.manifest.name, "@",
                   run.manifest.version>>))

C1_Witness ==
    /\ Collision
    /\ Done
    /\ Cardinality(run.queried.versions) >= 2

(***************************************************************************)
(* C2.  When the manifest of the package result has enableProposedApi      *)
(* true, publish fails with the proposed-API error and makes no registry   *)
(* call, with an explicit package and with a built one.                    *)
(***************************************************************************)
C2_ProposedApiForbidden ==
    (op = "publish" /\ run.manifest.enableProposedApi) =>
        /\ RejectedWith(Plain("ProposedApi", "publish"))
        /\ NumRegistryCalls = 0
        /\ NumCalls(run, "getGalleryAPI") = 0

C2_Witness ==
    /\ op = "publish"
    /\ Truthy(options.packagePath)
    /\ run.manifest.enableProposedApi
    /\ Done

C2_WitnessBuilt ==
    /\ op = "publish"
    /\ NumCalls(run, "pack") = 1
    /\ run.manifest.enableProposedApi
    /\ Done

(***************************************************************************)
(* C3.  publish called with both packagePath and version fails with the    *)
(* configuration error and does nothing else: no call to any collaborator  *)
(* (archive reader, manifest file, tmpName, packager, credential store,    *)
(* gallery) and nothing printed.                                           *)
(***************************************************************************)
BothGiven ==
    op = "publish" /\ Truthy(options.packagePath) /\ VersionGiven(options.version)

C3_ExclusiveOptions ==
    BothGiven =>
        /\ run.calls = <<>>
        /\ run.console = <<>>
        /\ zip = "none"
        /\ run.pc # "start" => RejectedWith(Plain("Config", "publish"))

C3_Witness == BothGiven /\ Done

C5_NotFoundIffEndWithoutMatch ==
    (rm.state = "rejected" /\ rm.err.kind = "ManifestNotFound")
        <=> (zip = "ended" /\ NumMatches = 0)

C5_Witness ==
    /\ rm.state = "rejected"
    /\ rm.err.kind = "ManifestNotFound"
    /\ Len(entries) >= 1

\* a matching entry was delivered, end-of-archive fired before its stream
\* completed, and the call went on to succeed
C5_WitnessEndBeforeStream ==
    /\ zip = "ended"
    /\ NumMatches = 1
    /\ streams[1].st = "ended"
    /\ rm.state = "fulfilled"
    /\ "Extension/Package.JSON" \in {entries[i] : i \in DOMAIN entries}

(***************************************************************************)
(* C6.  One matching entry whose stream delivered its chunks and ended.    *)
(* As stated: the call succeeds with the parse of the chunks concatenated  *)
(* in delivery order.                                                      *)
(***************************************************************************)
OneMatchEnded == NumMatches = 1 /\ streams[1].st = "ended"

C6_Original ==
    (OneMatchEnded /\ Len(streams[1].sent) >= 1) =>
        /\ rm.state = "fulfilled"
        /\ rm.manifest = JsonValue(Concat(streams[1].sent))

(***************************************************************************)
(* C6, amended.  One matching entry whose stream delivered its chunks and  *)
(* ended: when the chunks concatenated in delivery order are a text        *)
(* JSON.parse accepts, the call succeeds with its parse; otherwise the     *)
(* call fails with the parse error.  This holds wherever the entry stands  *)
(* among the others.                                                       *)
(***************************************************************************)
C6_ParseOfChunksInOrder ==
    OneMatchEnded =>
        LET text == Concat(streams[1].sent)
        IN IF JsonValid(text)
           THEN rm.state = "fulfilled" /\ rm.manifest = JsonValue(text)
           ELSE rm.state = "rejected" /\ rm.err = Plain("Parse", "JSON.parse")

C6_Witness ==
    /\ OneMatchEnded
    /\ streams[1].entry = 2
    /\ streams[1].sent = << <<"{", "id", "v1">>, <<"api", "}">> >>
    /\ rm.state = "fulfilled"
    /\ rm.manifest = Manifest(Acme, Tool, Ver(1, 0, 0), TRUE)

(***************************************************************************)
(* C7.  In _publish the transfer is chosen by the answer of getExtension   *)
(* alone: createExtension is called iff getExtension failed with status    *)
(* 404, updateExtension iff it returned an extension none of whose version *)
(* records equals manifest.version; when it fails with another status no   *)
(* transfer is called and that failure is the result of the run.           *)
(***************************************************************************)
C7_TransferChosenByQuery ==
    /\ NumCalls(run, "createExtension") = 1 <=> QueryFailedWith(NotFoundStatus)
    /\ NumCalls(run, "updateExtension") = 1 <=>
          (run.queried.state = "ok" /\ ~Collision)
    /\ (run.queried.state = "failed" /\ ~QueryFailedWith(NotFoundStatus)) =>
          /\ NumTransfers = 0
          /\ run.result.state = "rejected"
          /\ SameFailure(run.result.err, run.queried.err)

C7_Witness ==
    /\ QueryFailedWith(NotFoundStatus)
    /\ NumCalls(run, "createExtension") = 1
    /\ Done

(***************************************************************************)
(* C8.  publish reports success (resolves, prints 'Successfully            *)
(* published') only if a transfer was issued and answered without error.   *)
(* The one failure that does not fail the run is a 404 of getExtension:    *)
(* any other failed step ends the run in failure, with no confirmation.    *)
(***************************************************************************)
RealFailures ==
    IF QueryFailedWith(NotFoundStatus)
    THEN run.failed \ {"getExtension"} ELSE run.failed

C9_ConflictTranslation ==
    /\ run.transferred.state = "failed" =>
          IF run.transferred.err.status = ConflictStatus
          THEN RejectedWith(Err("AlreadyExists", "_publish", 0, FALSE,
                   <<run.manifest.publisher, ".", run.manifest.name, "@",
                     run.manifest.version>>))
          ELSE /\ run.result.state = "rejected"
               /\ SameFailure(run.result.err, run.transferred.err)
    /\ QueryFailedWith(ConflictStatus) =>
          /\ run.result.state = "rejected"
          /\ run.result.err.kind = "Http"
          /\ SameFailure(run.result.err, run.queried.err)

C9_Witness ==
    /\ run.transferred.state = "failed"
    /\ run.transferred.err.status = ConflictStatus
    /\ NumCalls(run, "updateExtension") = 1
    /\ Done

(***************************************************************************)
(* C10.  unpublish.  As stated: deleteExtension is called only after the   *)
(* prompt was answered 'y' or 'Y'; any other answer fails the run with     *)
(* 'Aborted', with no gallery client built and no delete call; with        *)
(* answer 'y' and identifier 'acme.tool' exactly one delete call is made,  *)
(* for publisher 'acme' and name 'tool'.                                   *)
(***************************************************************************)
Answered == op = "unpublish" /\ run.answer.def
Confirmed == Answered /\ IsYes(run.answer.str)
AcmeTool == Def(<<"a", "c", "m", "e", ".", "t", "o", "o", "l">>)
DeleteCalls ==
    {i \in DOMAIN run.calls : run.calls[i][1] = "deleteExtension"}

DeleteOnlyConfirmed ==
    /\ NumCalls(run, "deleteExtension") > 0 => Confirmed
    /\ (Answered /\ ~Confirmed) =>
          /\ RejectedWith(Plain("Aborted", "unpublish"))
          /\ NumCalls(run, "getGalleryAPI") = 0
          /\ NumCalls(run, "deleteExtension") = 0

OneDeleteForAcmeTool ==
    /\ Cardinality(DeleteCalls) = 1
    /\ \A i \in DeleteCalls : run.calls[i][2] = <<Def(Acme), Def(Tool)>>

C10_Original ==
    /\ DeleteOnlyConfirmed
    /\ (Confirmed /\ options.id = AcmeTool /\ Done) => OneDeleteForAcmeTool

(***************************************************************************)
(* C10, amended.  deleteExtension is called only after the prompt was      *)
(* answered 'y' or 'Y'; any other answer fails the run with 'Aborted',     *)
(* with no gallery client built and no delete call; with answer 'y' or 'Y' *)
(* and identifier 'acme.tool' exactly one delete call is made, for         *)
(* publisher 'acme' and name 'tool', unless no token was given in the      *)
(* options and getPublisher failed: then the run fails with that failure   *)
(* and makes no delete call.                                               *)
(***************************************************************************)
C10_DeleteOnlyConfirmed ==
    /\ DeleteOnlyConfirmed
    /\ (Confirmed /\ options.id = AcmeTool /\ Done) =>
          IF run.pat = "rejected"
          THEN /\ NumCalls(run, "deleteExtension") = 0
               /\ ~Truthy(options.pat)
               /\ RejectedWith(Plain("UnknownPublisher", "getPublisher"))
          ELSE OneDeleteForAcmeTool

C10_Witness ==
    /\ Confirmed
    /\ run.answer.str = <<"Y">>
    /\ options.id = AcmeTool
    /\ ~Truthy(options.pat)
    /\ run.result.state = "resolved"
    /\ OneDeleteForAcmeTool


(***************************************************************************)
(* C11.  In a run of publish writeManifest is called at most once, and     *)
(* only when no package path was given, a version directive was given,     *)
(* the directive resolved successfully, that is to a semantic version, and *)
(* the resolved version differs from the version read from the manifest of *)
(* the working directory.  In every other run the manifest of the working  *)
(* directory is the one the run started with.                              *)
(***************************************************************************)
DirectiveRejected ==
    /\ VersionGiven(options.version)
    /\ options.version.tag \notin Keywords
    /\ SemverValid(options.version) = NullVersion

WriteCalls == {i \in DOMAIN run.calls : run.calls[i][1] = "writeManifest"}

WriteOnlyOnChange ==
    /\ Cardinality(WriteCalls) <= 1
    /\ WriteCalls # {} =>
          /\ op = "publish"
          /\ ~Truthy(options.packagePath)
          /\ VersionGiven(options.version)
          /\ ~DirectiveRejected
    /\ run.pc = "writeManifest" =>
          /\ WriteCalls = {Len(run.calls)}
          /\ LastArg(run).version # cwdManifest.version
          /\ LastArg(run) = [cwdManifest EXCEPT !.version = LastArg(run).version]
    /\ WriteCalls = {} => cwdManifest.version \in CwdVersions

ResolvedSuccessfully ==
    \A i \in WriteCalls : SemverValid(run.calls[i][2].version) # NullVersion

C11_WriteOnlyOnChange == WriteOnlyOnChange /\ ResolvedSuccessfully

(***************************************************************************)
(* C12.  publish called with a package path and no version directive       *)
(* never calls the packager or tmpName, neither reads nor writes the       *)
(* manifest of the working directory, and hands _publish exactly the given *)
(* path, with the manifest extracted from that archive: the read stream    *)
(* and the transfer are made on that path.                                 *)
(***************************************************************************)
ExplicitPackage ==
    op = "publish" /\ Truthy(options.packagePath) /\ ~VersionGiven(options.version)

C12_ExplicitPathVerbatim ==
    ExplicitPackage =>
        /\ NumCalls(run, "pack") = 0
        /\ NumCalls(run, "tmpName") = 0
        /\ NumCalls(run, "readManifest") = 0
        /\ NumCalls(run, "writeManifest") = 0
        /\ cwdManifest = Manifest(Acme, Tool, Ver(1, 2, 3), FALSE)
        /\ TransactorEntered =>
              /\ rm.state = "fulfilled"
              /\ run.manifest = rm.manifest
              /\ run.packagePath = options.packagePath.str
        /\ \A i \in DOMAIN run.calls :
              /\ run.calls[i][1] \in {"fs.createReadStream", "createExtension"}
                    => run.calls[i][2] = options.packagePath.str
              /\ run.calls[i][1] = "updateExtension"
                    => run.calls[i][2][1] = options.packagePath.str

C12_Witness ==
    /\ ExplicitPackage
    /\ NumCalls(run, "updateExtension") = 1
    /\ run.result.state = "resolved"


(***************************************************************************)
(* C13.  For every current version V = major.minor.patch that is a valid   *)
(* semantic version and every directive among major, minor and patch, the  *)
(* version versionBump computes, the one of the manifest it writes, is     *)
(* strictly greater than V in the order of semantic versions, has the      *)
(* named component incremented by one, every lower component zero and      *)
(* every higher component unchanged.                                       *)
(***************************************************************************)
SemverLess(v, w) ==
    \/ v.maj < w.maj
    \/ v.maj = w.maj /\ v.min < w.min
    \/ v.maj = w.maj /\ v.min = w.min /\ v.pat < w.pat

BumpedFrom(v, w, release) ==
    /\ w.tag = ""
    /\ SemverLess(v, w)
    /\ release = "major" => w.maj = v.maj + 1 /\ w.min = 0 /\ w.pat = 0
    /\ release = "minor" => w.maj = v.maj /\ w.min = v.min + 1 /\ w.pat = 0
    /\ release = "patch" => w.maj = v.maj /\ w.min = v.min /\ w.pat = v.pat + 1

KeywordBump ==
    /\ op = "publish"
    /\ ~Truthy(options.packagePath)
    /\ options.version.tag \in Keywords
    /\ SemverValid(cwdManifest.version) # NullVersion

C13_KeywordBumpIncrements ==
    /\ KeywordBump /\ run.pc = "writeManifest" =>
          BumpedFrom(cwdManifest.version, LastArg(run).version,
                     options.version.tag)
    \* the computed version always differs from V, so it is always written
    /\ KeywordBump /\ NumCalls(run, "tmpName") > 0 =>
          NumCalls(run, "writeManifest") = 1

C13_Witness ==
    /\ KeywordBump
    /\ run.pc = "writeManifest"
    /\ options.version = Word("minor")
    /\ cwdManifest.version = Ver(1, 1, 1)
    /\ LastArg(run).version = Ver(1, 2, 0)


(***************************************************************************)
(* C14.  When unpublish is given a combined identifier that contains a     *)
(* '.', every delete call is for the publisher spelled by the text before  *)
(* the first '.' and the name spelled by all the text after the first '.'  *)
(* (for 'a.b.c': publisher 'a', name 'b.c').                               *)
(***************************************************************************)
HasDot(s) == \E i \in DOMAIN s : s[i] = Dot
FirstDot(s) == CHOOSE i \in DOMAIN s : s[i] = Dot /\ \A k \in 1..(i - 1) : s[k] # Dot
BeforeFirstDot(s) == SubSeq(s, 1, FirstDot(s) - 1)
AfterFirstDot(s) == SubSeq(s, FirstDot(s) + 1, Len(s))

C14_SplitOnFirstDot ==
    (op = "unpublish" /\ Truthy(options.id) /\ HasDot(options.id.str)) =>
        \A i \in DeleteCalls :
            run.calls[i][2] = << Def(BeforeFirstDot(options.id.str)),
                                 Def(AfterFirstDot(options.id.str)) >>

(***************************************************************************)
(* C15.  No sequence of events leaves readManifestFromPackage pending:     *)
(* once the archive reader has stopped, by failing to open, by 'end' or by *)
(* 'error', and every stream asked for has stopped, by failing to open, by *)
(* 'error' or by 'end', the call has produced its outcome.                 *)
(***************************************************************************)
ReaderStopped == zip \in {"openfailed", "ended", "errored"}
StreamsStopped ==
    \A i \in DOMAIN streams : streams[i].st \in {"failed", "errored", "ended"}

C15_AlwaysAnOutcome ==
    (ReaderStopped /\ StreamsStopped) => rm.state # "pending"

\* the same without the 'error' event of the archive reader
OutcomeUnlessReaderError ==
    (ReaderStopped /\ zip # "errored" /\ StreamsStopped) => rm.state # "pending"

(***************************************************************************)
(* C16.  The first entry matching extension/package.json is terminal: a    *)
(* read stream is opened for no entry that comes after a matching entry,   *)
(* so at most one stream is opened, and the outcome of the call is that of *)
(* the first matching entry.                                               *)
(***************************************************************************)
C16_FirstMatchTerminal ==
    /\ \A i \in DOMAIN streams :
          \A j \in 1..(streams[i].entry - 1) : ~IsManifestEntry(entries[j])
    /\ Len(streams) <= 1
    /\ (streams # <<>> /\ streams[1].st \in {"opening", "open"}) =>
          rm.state = "pending"

(***************************************************************************)
(* C17.  In unpublish, when the options carry no token, getPublisher is    *)
(* called only after the prompt was answered 'y' or 'Y', and not at all    *)
(* when the user declines.                                                 *)
(***************************************************************************)
C17_CredentialsOnConfirmation ==
    op = "unpublish" =>
        /\ NumCalls(run, "getPublisher") > 0 => Confirmed
        /\ (Answered /\ ~Confirmed) => NumCalls(run, "getPublisher") = 0

(***************************************************************************)
(* C18 as stated.  On the build path the packager is called only after the *)
(* version bump completed, the manifest write included; with a directive   *)
(* that is neither a keyword nor a semantic version the run fails with     *)
(* 'Invalid version' and makes no manifest write, no tmpName call, no      *)
(* packager call and no registry call.                                     *)
(***************************************************************************)
BuildPath == op = "publish" /\ ~Truthy(options.packagePath)
InvalidVersion ==
    Err("InvalidVersion", "versionBump", 0, FALSE, <<options.version>>)
PackCalls == {i \in DOMAIN run.calls : run.calls[i][1] = "pack"}

PackAfterBump ==
    NumCalls(run, "tmpName") + NumCalls(run, "pack") > 0 =>
        /\ BuildPath
        /\ "versionBump" \notin run.failed
        /\ VersionGiven(options.version) =>
              /\ NumCalls(run, "readManifest") = 1
              /\ ~DirectiveRejected
        \* the write was made before and is complete: the file holds it
        /\ \A i \in WriteCalls :
              /\ run.calls[i][2] = cwdManifest
              /\ \A j \in PackCalls : i < j

NothingAfterInvalidDirective ==
    /\ NumCalls(run, "writeManifest") = 0
    /\ NumCalls(run, "tmpName") = 0
    /\ NumCalls(run, "pack") = 0
    /\ NumCalls(run, "getPublisher") = 0
    /\ NumRegistryCalls = 0
    /\ ~TransactorEntered

C18_Original ==
    /\ PackAfterBump
    /\ (BuildPath /\ DirectiveRejected) =>
          /\ NothingAfterInvalidDirective
          /\ Done => RejectedWith(InvalidVersion)

(***************************************************************************)
(* C18, amended.  On the build path the packager is called only after the  *)
(* version bump completed, the manifest write included; with a directive   *)
(* that is neither a keyword nor a semantic version the run makes no       *)
(* manifest write, no tmpName call, no packager call and no registry call, *)
(* and fails with 'Invalid version', unless readManifest failed: then it   *)
(* fails with that failure.                                                *)
(***************************************************************************)
C18_PackAfterBump ==
    /\ PackAfterBump
    /\ (BuildPath /\ DirectiveRejected) =>
          /\ NothingAfterInvalidDirective
          /\ Done =>
                \/ RejectedWith(InvalidVersion)
                \/ RejectedWith(Plain("ReadManifest", "versionBump"))

C18_Witness ==
    /\ BuildPath
    /\ options.version = Ver(2, 0, 0)
    /\ WriteCalls # {}
    /\ PackCalls # {}
    /\ cwdManifest.version = Ver(2, 0, 0)

C18_WitnessInvalid ==
    /\ BuildPath
    /\ DirectiveRejected
    /\ Done
    /\ RejectedWith(InvalidVersion)

(***************************************************************************)
(* C19.  Every manifest versionBump passes to writeManifest has a present, *)
(* valid semantic version, whatever the version of the manifest read and   *)
(* whatever the directive.                                                 *)
(***************************************************************************)
C19_WrittenVersionValid ==
    run.pc = "writeManifest" =>
        /\ LastArg(run).version.tag = ""
        /\ LastArg(run).version # NullVersion

(***************************************************************************)
(* C20.  _publish opens a read stream on the package only in runs that     *)
(* issue a create or update transfer: a finished run without a transfer    *)
(* has opened no read stream.                                              *)
(***************************************************************************)
C20_StreamOnlyForTransfer ==
    (Done /\ NumTransfers = 0) => NumCalls(run, "fs.createReadStream") = 0

====
